---- MODULE Spec2Model ----
(***************************************************************************)
(* Model of mangadex-downloader:                                           *)
(*   - main.py        download() / fetch(): validation, upstream fetch,    *)
(*                    folder layout and the per-chapter retry loop;        *)
(*   - format/base.py _Worker: the single-job background worker with its   *)
(*                    watchdog thread.                                     *)
(* Python values are encoded as strings or tagged records so that Python's *)
(* "==" between values of different types is plain TLA+ equality.          *)
(***************************************************************************)
EXTENDS Integers, Sequences, FiniteSets, TLC

\* ------------------------------------------------------------------ bounds
\* largest float passed as start_chapter / end_chapter (1.0 .. MaxArg.0)
MaxArg == 2
\* pages of every chapter's image set
MaxPages == 2
\* failed page downloads allowed per chapter before the upstream recovers
MaxFail == 2
\* threads that call _Worker.submit(), one job each
MaxJobs == 2
\* largest numeric volume / chapter label fed to the folder naming
MaxLabel == 5

\* ------------------------------------------------------- download(): inputs
NoneV == [t |-> "none", v |-> 0]
FloatV(n) == [t |-> "float", v |-> n]
\* a value that is neither None nor a float (an int, a str)
OtherV == [t |-> "other", v |-> 0]

BoundArgs == {NoneV, OtherV} \cup {FloatV(n) : n \in 1..MaxArg}

valid_cover_types == {"original", "512px", "256px"}
CoverArgs == valid_cover_types \cup {"1024px"}

\* Language.English (the enum member), a str naming a language, a str naming
\* none, and a value of another type
LanguageArgs == {"Language.English", "en", "xx", "int"}
UrlArgs == {"valid", "invalid"}

ArgSet ==
    [start_chapter : BoundArgs, end_chapter : BoundArgs, cover : CoverArgs,
     language : LanguageArgs, url : UrlArgs, replace : BOOLEAN,
     no_oneshot_chapter : BOOLEAN]

\* sanitize_filename(manga.title)
Title == "Manga"

\* The chapter list get_all_chapters() returns, in API response order:
\* (volume label, chapter label). "int:0" is the integer 0, "0" the string.
MangaChapters ==
    << [vol |-> "none", chap |-> "none"],
       [vol |-> "1",    chap |-> "1"],
       [vol |-> "none", chap |-> "2"],
       [vol |-> "2",    chap |-> "3"] >>

VARIABLES
    args,        \* the parameters of the running download() call
    run,         \* 1: first call, 2: the call repeated on the same target
    pc,          \* position of download()
    err,         \* the exception download() raised ("" when none)
    netCalls,    \* upstream API functions called by this call
    fs,          \* the paths that exist under the base path
    fsAtCall,    \* fs when this call started
    transfers,   \* paths this call transferred over the network
    upstream,    \* "recovers": page transfers stop failing after MaxFail
                 \* failures per chapter; "broken": every page transfer fails
    iterPos,     \* items iter_chapter_images has yielded
    vol, chap,   \* the loop variables of line 218
    chapter_folder,
    images,      \* the image set's current sequence (page, url, name)
    fetchCalls,  \* images.fetch() calls for the current chapter
    fails,       \* failed page downloads of the current chapter
    pageIdx,     \* position of the for loop of line 251 in images.iter()
    error,       \* the flag of line 250
    passLog,     \* the download() calls of the current pass, in order:
                 \* (page, ok: it returned success, transfer: it used the network,
                 \* server: the fetch that served the url it was given)
    okNames,     \* pages of this chapter whose download() returned success
    again,       \* pages transferred although already in okNames
    started,     \* the chapters the loop entered, in order
    leftDirty    \* a chapter was left without a complete error-free pass

dvars == <<args, run, pc, err, netCalls, fs, fsAtCall, transfers, upstream,
           iterPos, vol,
           chap, chapter_folder, images, fetchCalls, fails, pageIdx, error,
           passLog, okNames, again, started, leftDirty>>

chapterVars == <<iterPos, vol, chap, chapter_folder, images, fetchCalls, fails,
                 pageIdx, error, passLog, okNames, again, started, leftDirty>>


\* ------------------------------------------------------- _Worker: state
\* Jobs are numbered 1..MaxJobs; job j is submitted by submitter thread j.
Jobs == 1..MaxJobs
\* The sentinel _shutdown_main() enqueues (Python's None)
Sentinel == 0

VARIABLES
    queue,           \* self._queue: job numbers and sentinels, oldest first
    shutdown_event,  \* self._shutdown_event is set
    mainAlive,       \* threading.main_thread().is_alive()
    wpc,             \* position of _thread_main in _main()
    data,            \* the item _main() dequeued last
    dpc,             \* position of _thread_shutdown in _loop_check_mainthread()
    spc,             \* position of each submitter thread in submit()
    event,           \* per job: the Event submit() created is set
    executing,       \* jobs whose job() call is in progress
    finished,        \* jobs whose job() call has ended
    raised,          \* jobs whose job() call raised an Exception
    execOrder,       \* the jobs _main() has started, in order
    beforeSentinel,  \* jobs enqueued while no sentinel had been enqueued
    afterShutdown,   \* jobs whose submit() call began after shutdown() was called
    enqOrder,        \* the jobs enqueued, in order
    sentinels        \* sentinels enqueued so far

\* the records kept of submissions and sentinels
hvars == <<afterShutdown, enqOrder, sentinels>>

wvars == <<queue, shutdown_event, mainAlive, wpc, data, dpc, spc, event,
           executing, finished, raised, execOrder, beforeSentinel, hvars>>

\* ------------------------------------------------------- cli _main: state
\* --start-chapter / --end-chapter as parsed: None or a float
CliBoundArgs == {NoneV} \cup {FloatV(n) : n \in 1..MaxArg}

VARIABLES
    cargs,      \* args.start_chapter and args.end_chapter of _main(argv)
    cpc,        \* position of _main()
    calls,      \* the collaborator functions _main() has called, in order
    exit_code   \* the value _main() returned, -1 before it returns

cvars == <<cargs, cpc, calls, exit_code>>

vars == <<dvars, wvars, cvars>>

\* ------------------------------------------- download(): pure computations
\* Lines 172-181 of download(): the exception the validation raises, "" when
\* the arguments pass. None > x and x > None raise TypeError in Python 3.
ValidateArgs(a) ==
    IF a.start_chapter.t = "other" THEN "ValueError: start_chapter must be float"
    ELSE IF a.end_chapter.t = "other" THEN "ValueError: end_chapter must be float"
    ELSE IF a.start_chapter.t = "none" \/ a.end_chapter.t = "none"
        THEN "TypeError: '>' not supported"
    ELSE IF a.start_chapter.v > a.end_chapter.v
        THEN "ValueError: start_chapter cannot be more than end_chapter"
    ELSE IF a.cover \notin valid_cover_types THEN "ValueError: invalid cover type"
    ELSE ""

\* Lines 75-88 of fetch(): the exception raised while parsing the language
\* and validating the url, "" when both pass.
ParseLanguageAndUrl(a) ==
    IF a.language = "Language.English" \/ a.language = "en"
        THEN (IF a.url = "invalid" THEN "InvalidURL" ELSE "")
    ELSE IF a.language = "xx" THEN "ValueError: invalid language"
    ELSE "ValueError: language must be Language or str"

\* Variant of ChapterFolder: the third oneshot test (line 238) is missing.
ChapterFolderTwoTests(v, c) ==
    IF v = "int:0" /\ c = "none" THEN "Oneshot"
    ELSE IF v = "none" /\ c = "none" THEN "Oneshot"
    ELSE (IF v # "none"
            THEN "Volume. " \o (IF v = "int:0" THEN "0" ELSE v) \o " "
            ELSE "")
         \o "Chapter. " \o c

\* Lines 232-243: the chapter folder name.
ChapterFolder(v, c) ==
    IF v = "int:0" /\ c = "none" THEN "Oneshot"
    ELSE IF v = "none" /\ c = "none" THEN "Oneshot"
    ELSE IF v = "none" /\ c = "0" THEN "Oneshot"
    ELSE (IF v # "none"
            THEN "Volume. " \o (IF v = "int:0" THEN "0" ELSE v) \o " "
            ELSE "")
         \o "Chapter. " \o c

\* The numeric value of a chapter label, -1 when it is not numeric.
ChapterNumber(c) ==
    CASE c = "0" -> 0 [] c = "1" -> 1 [] c = "2" -> 2 [] c = "3" -> 3
      [] OTHER -> -1

IsOneshot(ch) ==
    \/ ch.vol = "int:0" /\ ch.chap = "none"
    \/ ch.vol = "none" /\ ch.chap = "none"
    \/ ch.vol = "none" /\ ch.chap = "0"

\* Chapter.iter_chapter_images: the chapters it yields, in stored order.
IterChapters(a) ==
    LET keep(ch) ==
          /\ ~(a.no_oneshot_chapter /\ IsOneshot(ch))
          /\ (a.start_chapter.t = "float" /\ a.end_chapter.t = "float"
              /\ ChapterNumber(ch.chap) >= 0)
             => /\ a.start_chapter.v <= ChapterNumber(ch.chap)
                /\ ChapterNumber(ch.chap) <= a.end_chapter.v
    IN SelectSeq(MangaChapters, keep)

\* The image file name: page number and the extension of the url.
ImageName(page, url) == ToString(page) \o "." \o url.ext

\* ChapterImages.fetch(): the sequence the n-th fetch of a chapter serves.
\* Every refresh serves the same pages from a new server.
FetchImages(n) ==
    [p \in 1..MaxPages |->
        LET url == [server |-> n, ext |-> "jpg"]
        IN [page |-> p, url |-> url, name |-> ImageName(p, url)]]

\* ------------------------------------------------------ download(): actions
NoChapter ==
    /\ iterPos = 0 /\ vol = "" /\ chap = "" /\ chapter_folder = ""
    /\ images = <<>> /\ fetchCalls = 0 /\ fails = 0 /\ pageIdx = 0
    /\ error = FALSE /\ passLog = <<>> /\ okNames = {} /\ again = {}
    /\ started = <<>> /\ leftDirty = FALSE

DInit ==
    /\ args \in ArgSet
    /\ run = 1
    /\ pc = "validate"
    /\ err = ""
    /\ netCalls = {}
    /\ fs = {}
    /\ fsAtCall = {}
    /\ transfers = {}
    /\ upstream \in {"recovers", "broken"}
    /\ NoChapter

Raise(e) ==
    /\ pc' = "raised"
    /\ err' = e

\* download() lines 171-181
Validate ==
    /\ pc = "validate"
    /\ IF ValidateArgs(args) # ""
         THEN Raise(ValidateArgs(args))
         ELSE pc' = "fetch" /\ err' = err
    /\ UNCHANGED <<wvars, cvars, upstream, args, run, netCalls, fs, fsAtCall, transfers, chapterVars>>

\* Variant of FetchManga: get_manga() is called before the language is parsed.
FetchMangaFirst ==
    /\ pc = "fetch"
    /\ netCalls' = netCalls \cup {"get_manga"}
    /\ IF ParseLanguageAndUrl(args) # ""
         THEN Raise(ParseLanguageAndUrl(args))
         ELSE \/ Raise("InvalidManga")
              \/ pc' = "rels" /\ err' = err
    /\ UNCHANGED <<wvars, cvars, upstream, args, run, fs, fsAtCall, transfers, chapterVars>>

\* fetch() lines 74-92: parse the language, validate the url, get_manga()
FetchManga ==
    /\ pc = "fetch"
    /\ IF ParseLanguageAndUrl(args) # ""
         THEN Raise(ParseLanguageAndUrl(args)) /\ netCalls' = netCalls
         ELSE /\ netCalls' = netCalls \cup {"get_manga"}
              /\ \/ Raise("InvalidManga")
                 \/ pc' = "rels" /\ err' = err
    /\ UNCHANGED <<wvars, cvars, upstream, args, run, fs, fsAtCall, transfers, chapterVars>>

\* Variant of FetchChapters: the manga folder is created before the chapter
\* list is fetched.
FetchChaptersAfterMkdir ==
    /\ pc = "rels"
    /\ netCalls' = netCalls \cup {"get_author", "get_cover_art", "get_all_chapters"}
    /\ fs' = fs \cup {<<Title>>}
    /\ \/ Raise("ChapterNotFound")
       \/ pc' = "mkdir" /\ err' = err
    /\ UNCHANGED <<wvars, cvars, upstream, args, run, fsAtCall, transfers, chapterVars>>

\* fetch() lines 94-128: authors, artists and cover, then the chapter list
FetchChapters ==
    /\ pc = "rels"
    /\ netCalls' = netCalls \cup {"get_author", "get_cover_art", "get_all_chapters"}
    /\ \/ Raise("ChapterNotFound")
       \/ pc' = "mkdir" /\ err' = err
    /\ UNCHANGED <<wvars, cvars, upstream, args, run, fs, fsAtCall, transfers, chapterVars>>

\* download() lines 185-195: base_path.mkdir(parents=True, exist_ok=True)
MakeBaseFolder ==
    /\ pc = "mkdir"
    /\ fs' = fs \cup {<<Title>>}
    /\ pc' = "cover"
    /\ UNCHANGED <<wvars, cvars, upstream, args, run, err, netCalls, fsAtCall, transfers, chapterVars>>

\* The replace flag download() passes to download_file for the cover (line 210)
CoverReplace(a) == TRUE

\* download() lines 197-215: download the cover, write details.json
DownloadCover ==
    /\ pc = "cover"
    /\ LET cover_path == <<Title, "cover.jpg">>
           skip == cover_path \in fs /\ ~CoverReplace(args)
       IN \E success \in (IF skip THEN {TRUE} ELSE BOOLEAN) :
            /\ transfers' = (IF skip THEN transfers ELSE transfers \cup {cover_path})
            /\ fs' = fs \cup (IF ~skip /\ success THEN {cover_path} ELSE {})
                        \cup {<<Title, "details.json">>}
    /\ pc' = "chapters"
    /\ UNCHANGED <<wvars, cvars, upstream, args, run, err, netCalls, fsAtCall, chapterVars>>

\* ChapterPageDownloader.download(): the transfer is skipped when the file
\* exists and replace is false.
SkipsTransfer(path, replace) == path \in fs /\ ~replace

\* Variant of PageReplace: the caller's replace flag is dropped and every
\* page is downloaded with replace=True.
PageReplaceAlways(a) == TRUE

\* The replace flag download() passes to ChapterPageDownloader (line 258)
PageReplace(a) == a.replace

\* Variant of IterImages: the page loop walks the sequence of the first
\* fetch, not the one a refresh put in its place.
IterImagesStale == FetchImages(1)

\* The sequence images.iter() walks: the image set's current sequence.
IterImages == images

\* The pass just made attempted every page of the image set and none failed.
CleanPass ==
    /\ Len(passLog) = Len(images)
    /\ \A i \in 1..Len(passLog) : passLog[i].ok /\ passLog[i].page = images[i].page

\* download() lines 218-250: the iterator yields the next chapter; its images
\* are fetched, its folder is created and the first pass begins.
NextChapter ==
    /\ pc = "chapters"
    /\ iterPos < Len(IterChapters(args))
    /\ LET ch == IterChapters(args)[iterPos + 1] IN
        /\ iterPos' = iterPos + 1
        /\ vol' = ch.vol
        /\ chap' = ch.chap
        /\ started' = Append(started, ch)
        /\ fetchCalls' = 1
        /\ fails' = 0
        /\ okNames' = {}
        /\ again' = {}
        /\ passLog' = <<>>
        /\ \/ \* images.fetch() fails: the upstream is unavailable
              /\ Raise("UpstreamUnavailable")
              /\ UNCHANGED <<images, chapter_folder, fs, pageIdx, error>>
           \/ /\ images' = FetchImages(1)
              /\ chapter_folder' = ChapterFolder(ch.vol, ch.chap)
              /\ fs' = fs \cup {<<Title, ChapterFolder(ch.vol, ch.chap)>>}
              /\ error' = FALSE
              /\ pageIdx' = 1
              /\ pc' = "pages"
              /\ err' = err
    /\ UNCHANGED <<wvars, cvars, upstream, args, run, netCalls, fsAtCall, transfers, leftDirty>>

\* download() lines 251-274: one iteration of the page loop. A failed page
\* sets error, refreshes the image set and breaks out of the loop.
PageAttempt ==
    /\ pc = "pages"
    /\ ~error
    /\ pageIdx <= Len(IterImages)
    /\ LET item == IterImages[pageIdx]
           img_path == <<Title, chapter_folder, item.name>>
           skip == SkipsTransfer(img_path, PageReplace(args))
       IN \E success \in (IF skip THEN {TRUE}
                           ELSE IF upstream = "broken" THEN {FALSE}
                           ELSE BOOLEAN) :
            /\ ~success => fails < MaxFail
            /\ passLog' = Append(passLog,
                    [page |-> item.page, ok |-> success, transfer |-> ~skip,
                     server |-> item.url.server])
            /\ transfers' = (IF skip THEN transfers ELSE transfers \cup {img_path})
            /\ again' = (IF ~skip /\ item.name \in okNames
                           THEN again \cup {item.name} ELSE again)
            /\ fs' = (IF ~skip /\ success THEN fs \cup {img_path} ELSE fs)
            /\ IF success
                 THEN /\ okNames' = okNames \cup {item.name}
                      /\ pageIdx' = pageIdx + 1
                      /\ UNCHANGED <<error, fails, fetchCalls, images, pc, err>>
                 ELSE /\ error' = TRUE
                      /\ fails' = fails + 1
                      /\ fetchCalls' = fetchCalls + 1
                      /\ UNCHANGED <<okNames, pageIdx>>
                      /\ \/ Raise("UpstreamUnavailable") /\ images' = images
                         \/ /\ images' = FetchImages(fetchCalls + 1)
                            /\ UNCHANGED <<pc, err>>
    /\ UNCHANGED <<wvars, cvars, upstream, args, run, netCalls, fsAtCall, iterPos, vol, chap,
                   chapter_folder, started, leftDirty>>

\* Variant of PassEnd: the while loop is left whether or not a page failed.
PassEndNoRetry ==
    /\ pc = "pages"
    /\ error \/ pageIdx > Len(IterImages)
    /\ pc' = "chapters"
    /\ leftDirty' = (leftDirty \/ ~CleanPass)
    /\ UNCHANGED <<wvars, cvars, upstream, args, run, err, netCalls, fs, fsAtCall, transfers,
                   iterPos, vol, chap, chapter_folder, images, fetchCalls,
                   fails, okNames, again, started, error, pageIdx, passLog>>

\* Variant of PassEnd: a retry fetches the image set once more before the
\* next pass starts.
PassEndRefetch ==
    /\ pc = "pages"
    /\ error \/ pageIdx > Len(IterImages)
    /\ IF ~error
         THEN /\ pc' = "chapters"
              /\ leftDirty' = (leftDirty \/ ~CleanPass)
              /\ UNCHANGED <<error, pageIdx, passLog, fetchCalls, images>>
         ELSE /\ error' = FALSE
              /\ pageIdx' = 1
              /\ passLog' = <<>>
              /\ fetchCalls' = fetchCalls + 1
              /\ images' = FetchImages(fetchCalls + 1)
              /\ UNCHANGED <<pc, leftDirty>>
    /\ UNCHANGED <<wvars, cvars, upstream, args, run, err, netCalls, fs, fsAtCall, transfers,
                   iterPos, vol, chap, chapter_folder, fails, okNames, again,
                   started>>

\* Variant of PassEnd: a retry resumes at the page that failed instead of
\* restarting the page loop.
PassEndResume ==
    /\ pc = "pages"
    /\ error \/ pageIdx > Len(IterImages)
    /\ IF ~error
         THEN /\ pc' = "chapters"
              /\ leftDirty' = (leftDirty \/ ~CleanPass)
              /\ UNCHANGED <<error, pageIdx, passLog>>
         ELSE /\ error' = FALSE
              /\ pageIdx' = pageIdx
              /\ passLog' = <<>>
              /\ UNCHANGED <<pc, leftDirty>>
    /\ UNCHANGED <<wvars, cvars, upstream, args, run, err, netCalls, fs, fsAtCall, transfers,
                   iterPos, vol, chap, chapter_folder, images, fetchCalls,
                   fails, okNames, again, started>>

\* Variant of PassEnd: an attempt ceiling; after MaxFail failed passes the
\* chapter is given up and the while loop is left.
PassEndCeiling ==
    /\ pc = "pages"
    /\ error \/ pageIdx > Len(IterImages)
    /\ IF ~error \/ fails >= MaxFail
         THEN /\ pc' = "chapters"
              /\ leftDirty' = (leftDirty \/ ~CleanPass)
              /\ UNCHANGED <<error, pageIdx, passLog>>
         ELSE /\ error' = FALSE
              /\ pageIdx' = 1
              /\ passLog' = <<>>
              /\ UNCHANGED <<pc, leftDirty>>
    /\ UNCHANGED <<wvars, cvars, upstream, args, run, err, netCalls, fs,
                   fsAtCall, transfers, iterPos, vol, chap, chapter_folder,
                   images, fetchCalls, fails, okNames, again, started>>

\* download() lines 249-250 and 276-277: the page loop has ended; without an
\* error the while loop is left, otherwise the next pass starts from the top.
PassEnd ==
    /\ pc = "pages"
    /\ error \/ pageIdx > Len(IterImages)
    /\ IF ~error
         THEN /\ pc' = "chapters"
              /\ leftDirty' = (leftDirty \/ ~CleanPass)
              /\ UNCHANGED <<error, pageIdx, passLog>>
         ELSE /\ error' = FALSE
              /\ pageIdx' = 1
              /\ passLog' = <<>>
              /\ UNCHANGED <<pc, leftDirty>>
    /\ UNCHANGED <<wvars, cvars, upstream, args, run, err, netCalls, fs, fsAtCall, transfers, iterPos,
                   vol, chap, chapter_folder, images, fetchCalls, fails,
                   okNames, again, started>>

\* download() lines 218 and 279-280: the iterator is exhausted
Finish ==
    /\ pc = "chapters"
    /\ iterPos = Len(IterChapters(args))
    /\ pc' = "done"
    /\ UNCHANGED <<wvars, cvars, upstream, args, run, err, netCalls, fs, fsAtCall, transfers, chapterVars>>

\* download() is called a second time on the same target, after the first
\* call returned; only the replace flag may differ.
Rerun ==
    /\ pc = "done"
    /\ run = 1
    /\ run' = 2
    /\ \E r \in BOOLEAN : args' = [args EXCEPT !.replace = r]
    /\ pc' = "validate"
    /\ netCalls' = {}
    /\ transfers' = {}
    /\ fsAtCall' = fs
    /\ iterPos' = 0 /\ vol' = "" /\ chap' = "" /\ chapter_folder' = ""
    /\ images' = <<>> /\ fetchCalls' = 0 /\ fails' = 0 /\ pageIdx' = 0
    /\ error' = FALSE /\ passLog' = <<>> /\ okNames' = {} /\ again' = {}
    /\ started' = <<>> /\ leftDirty' = FALSE
    /\ UNCHANGED <<wvars, cvars, upstream, err, fs>>

DNext ==
    \/ Validate
    \/ FetchManga
    \/ FetchChapters
    \/ MakeBaseFolder
    \/ DownloadCover
    \/ NextChapter
    \/ PageAttempt
    \/ PassEnd
    \/ Finish
    \/ Rerun

\* --------------------------------------------------------- _Worker: actions
\* _Worker.__init__ (lines 6-13): nothing is started, nothing is queued
WInit ==
    /\ queue = <<>>
    /\ shutdown_event = FALSE
    /\ mainAlive = TRUE
    /\ wpc = "new"
    /\ data = Sentinel
    /\ dpc = "new"
    /\ spc = [j \in Jobs |-> "idle"]
    /\ event = [j \in Jobs |-> FALSE]
    /\ executing = {}
    /\ finished = {}
    /\ raised = {}
    /\ execOrder = <<>>
    /\ beforeSentinel = {}
    /\ afterShutdown = {}
    /\ enqOrder = <<>>
    /\ sentinels = 0

\* start() lines 15-17
Start ==
    /\ wpc = "new"
    /\ dpc = "new"
    /\ wpc' = "get"
    /\ dpc' = "check"
    /\ UNCHANGED <<dvars, cvars, hvars, queue, shutdown_event, mainAlive, data, spc, event,
                   executing, finished, raised, execOrder, beforeSentinel>>

\* submit() lines 30-32: create the event, enqueue [event, job]
SubmitPut(j) ==
    /\ spc[j] = "idle"
    /\ queue' = Append(queue, j)
    /\ spc' = [spc EXCEPT ![j] = "wait"]
    /\ beforeSentinel' = (IF dpc # "done" THEN beforeSentinel \cup {j}
                                          ELSE beforeSentinel)
    /\ afterShutdown' = (IF shutdown_event THEN afterShutdown \cup {j}
                                           ELSE afterShutdown)
    /\ enqOrder' = Append(enqOrder, j)
    /\ UNCHANGED <<dvars, cvars, sentinels, shutdown_event, mainAlive, wpc, data, dpc, event,
                   executing, finished, raised, execOrder>>

\* submit() line 33: event.wait() returns once the event is set
SubmitReturn(j) ==
    /\ spc[j] = "wait"
    /\ event[j]
    /\ spc' = [spc EXCEPT ![j] = "returned"]
    /\ UNCHANGED <<dvars, cvars, hvars, queue, shutdown_event, mainAlive, wpc, data, dpc, event,
                   executing, finished, raised, execOrder, beforeSentinel>>

\* shutdown() lines 39-41
Shutdown ==
    /\ ~shutdown_event
    /\ shutdown_event' = TRUE
    /\ UNCHANGED <<dvars, cvars, hvars, queue, mainAlive, wpc, data, dpc, spc, event, executing,
                   finished, raised, execOrder, beforeSentinel>>

\* The process's main thread terminates.
MainThreadExit ==
    /\ mainAlive
    /\ mainAlive' = FALSE
    /\ UNCHANGED <<dvars, cvars, hvars, queue, shutdown_event, wpc, data, dpc, spc, event,
                   executing, finished, raised, execOrder, beforeSentinel>>

\* Variant of WorkerGet: the job's event is set when the job is dequeued,
\* before it runs.
WorkerGetSetsEvent ==
    /\ wpc = "get"
    /\ queue # <<>>
    /\ queue' = Tail(queue)
    /\ data' = Head(queue)
    /\ IF Head(queue) = Sentinel
         THEN /\ wpc' = "exited"
              /\ UNCHANGED <<executing, execOrder, event>>
         ELSE /\ wpc' = "run"
              /\ executing' = executing \cup {Head(queue)}
              /\ execOrder' = Append(execOrder, Head(queue))
              /\ event' = [event EXCEPT ![Head(queue)] = TRUE]
    /\ UNCHANGED <<dvars, cvars, hvars, shutdown_event, mainAlive, dpc, spc, finished,
                   raised, beforeSentinel>>

\* Variant of WorkerGet: the newest item of the queue is taken, not the oldest.
WorkerGetNewest ==
    /\ wpc = "get"
    /\ queue # <<>>
    /\ queue' = SubSeq(queue, 1, Len(queue) - 1)
    /\ data' = queue[Len(queue)]
    /\ IF queue[Len(queue)] = Sentinel
         THEN /\ wpc' = "exited"
              /\ UNCHANGED <<executing, execOrder>>
         ELSE /\ wpc' = "run"
              /\ executing' = executing \cup {queue[Len(queue)]}
              /\ execOrder' = Append(execOrder, queue[Len(queue)])
    /\ UNCHANGED <<dvars, cvars, hvars, shutdown_event, mainAlive, dpc, spc,
                   event, finished, raised, beforeSentinel>>

\* _main() lines 44-49: dequeue; the sentinel ends the loop, a job is started
WorkerGet ==
    /\ wpc = "get"
    /\ queue # <<>>
    /\ queue' = Tail(queue)
    /\ data' = Head(queue)
    /\ IF Head(queue) = Sentinel
         THEN /\ wpc' = "exited"
              /\ UNCHANGED <<executing, execOrder>>
         ELSE /\ wpc' = "run"
              /\ executing' = executing \cup {Head(queue)}
              /\ execOrder' = Append(execOrder, Head(queue))
    /\ UNCHANGED <<dvars, cvars, hvars, shutdown_event, mainAlive, dpc, spc, event, finished,
                   raised, beforeSentinel>>

\* Variant of JobEnd: the exception of a job is not caught and ends _main().
JobEndUncaught ==
    /\ wpc = "run"
    /\ executing' = executing \ {data}
    /\ finished' = finished \cup {data}
    /\ \E ex \in BOOLEAN :
         /\ raised' = (IF ex THEN raised \cup {data} ELSE raised)
         /\ wpc' = (IF ex THEN "exited" ELSE "set")
    /\ UNCHANGED <<dvars, cvars, hvars, queue, shutdown_event, mainAlive, data, dpc, spc,
                   event, execOrder, beforeSentinel>>

\* _main() lines 50-53: job() returns or raises an Exception, which is caught
JobEnd ==
    /\ wpc = "run"
    /\ executing' = executing \ {data}
    /\ finished' = finished \cup {data}
    /\ \E ex \in BOOLEAN : raised' = (IF ex THEN raised \cup {data} ELSE raised)
    /\ wpc' = "set"
    /\ UNCHANGED <<dvars, cvars, hvars, queue, shutdown_event, mainAlive, data, dpc, spc, event,
                   execOrder, beforeSentinel>>

\* _main() line 54: event.set()
WorkerSetEvent ==
    /\ wpc = "set"
    /\ event' = [event EXCEPT ![data] = TRUE]
    /\ wpc' = "get"
    /\ UNCHANGED <<dvars, cvars, hvars, queue, shutdown_event, mainAlive, data, dpc, spc,
                   executing, finished, raised, execOrder, beforeSentinel>>

\* _loop_check_mainthread() lines 20-22: the first is_alive() test
WatchdogCheck ==
    /\ dpc = "check"
    /\ dpc' = (IF mainAlive THEN "sleep" ELSE "put")
    /\ UNCHANGED <<dvars, cvars, hvars, queue, shutdown_event, mainAlive, wpc, data, spc, event,
                   executing, finished, raised, execOrder, beforeSentinel>>

\* Variant of WatchdogSleep: the shutdown event is never tested.
WatchdogSleepNoTest ==
    /\ dpc = "sleep"
    /\ dpc' = "alive"
    /\ UNCHANGED <<dvars, cvars, hvars, queue, shutdown_event, mainAlive, wpc,
                   data, spc, event, executing, finished, raised, execOrder,
                   beforeSentinel>>

\* Variant of WatchdogSleep: the test is inverted, the loop is left while the
\* shutdown event is not set.
WatchdogSleepInverted ==
    /\ dpc = "sleep"
    /\ dpc' = (IF ~shutdown_event THEN "put" ELSE "alive")
    /\ UNCHANGED <<dvars, cvars, hvars, queue, shutdown_event, mainAlive, wpc,
                   data, spc, event, executing, finished, raised, execOrder,
                   beforeSentinel>>

\* _loop_check_mainthread() lines 23-25: sleep, then test the shutdown event
WatchdogSleep ==
    /\ dpc = "sleep"
    /\ dpc' = (IF shutdown_event THEN "put" ELSE "alive")
    /\ UNCHANGED <<dvars, cvars, hvars, queue, shutdown_event, mainAlive, wpc, data, spc, event,
                   executing, finished, raised, execOrder, beforeSentinel>>

\* Variant of WatchdogAlive: is_alive() is not read again inside the loop.
WatchdogAliveOnce ==
    /\ dpc = "alive"
    /\ dpc' = "sleep"
    /\ UNCHANGED <<dvars, cvars, hvars, queue, shutdown_event, mainAlive, wpc,
                   data, spc, event, executing, finished, raised, execOrder,
                   beforeSentinel>>

\* _loop_check_mainthread() lines 26 and 22: is_alive() again, loop test
WatchdogAlive ==
    /\ dpc = "alive"
    /\ dpc' = (IF mainAlive THEN "sleep" ELSE "put")
    /\ UNCHANGED <<dvars, cvars, hvars, queue, shutdown_event, mainAlive, wpc, data, spc, event,
                   executing, finished, raised, execOrder, beforeSentinel>>

\* _loop_check_mainthread() line 27, _shutdown_main() lines 35-37
WatchdogPut ==
    /\ dpc = "put"
    /\ queue' = Append(queue, Sentinel)
    /\ dpc' = "done"
    /\ sentinels' = sentinels + 1
    /\ UNCHANGED <<dvars, cvars, afterShutdown, enqOrder, shutdown_event, mainAlive, wpc, data, spc, event,
                   executing, finished, raised, execOrder, beforeSentinel>>

WNext ==
    \/ Start
    \/ \E j \in Jobs : SubmitPut(j)
    \/ \E j \in Jobs : SubmitReturn(j)
    \/ Shutdown
    \/ MainThreadExit
    \/ WorkerGet
    \/ JobEnd
    \/ WorkerSetEvent
    \/ WatchdogCheck
    \/ WatchdogSleep
    \/ WatchdogAlive
    \/ WatchdogPut

\* ------------------------------------------------------- cli _main: actions
CInit ==
    /\ cargs \in [start_chapter : CliBoundArgs, end_chapter : CliBoundArgs]
    /\ cpc = "setup"
    /\ calls = <<>>
    /\ exit_code = -1

\* No _main() is running
NoCli ==
    /\ cargs = [start_chapter |-> NoneV, end_chapter |-> NoneV]
    /\ cpc = "idle"
    /\ calls = <<>>
    /\ exit_code = -1

\* One collaborator call of _main(): it returns, or it raises and ends _main()
\* without a return value.
CliCall(names, to) ==
    /\ calls' = calls \o names
    /\ cpc' \in {to, "raised"}
    /\ UNCHANGED <<dvars, wvars, cargs, exit_code>>

\* _main() lines 16-23
CliSetup ==
    /\ cpc = "setup"
    /\ CliCall(<<"register_keyboardinterrupt_handler", "get_args",
                 "setup_logging">>, "check")

\* The test of lines 26-27
CliBoundsRejected(a) ==
    /\ a.start_chapter.t # "none"
    /\ a.end_chapter.t # "none"
    /\ a.start_chapter.v > a.end_chapter.v

\* Variant of CliCheck: the error is logged but _main() does not return.
CliCheckLogsOnly ==
    /\ cpc = "check"
    /\ cpc' = "proxy"
    /\ UNCHANGED <<dvars, wvars, cargs, calls, exit_code>>

\* _main() lines 25-29
CliCheck ==
    /\ cpc = "check"
    /\ IF CliBoundsRejected(cargs)
         THEN cpc' = "returned" /\ exit_code' = 1
         ELSE cpc' = "proxy" /\ exit_code' = exit_code
    /\ UNCHANGED <<dvars, wvars, cargs, calls>>

\* _main() line 32
CliSetupProxy ==
    /\ cpc = "proxy"
    /\ CliCall(<<"setup_proxy">>, "login")

\* _main() line 35
CliLogin ==
    /\ cpc = "login"
    /\ CliCall(<<"login_with_err_handler">>, "download")

\* _main() line 38
CliDownload ==
    /\ cpc = "download"
    /\ CliCall(<<"download">>, "logout")

\* _main() line 41
CliLogout ==
    /\ cpc = "logout"
    /\ CliCall(<<"logout_with_err_handler">>, "update")

\* _main() line 44
CliCheckUpdate ==
    /\ cpc = "update"
    /\ CliCall(<<"check_update">>, "close")

\* _main() line 47
CliClose ==
    /\ cpc = "close"
    /\ CliCall(<<"close_network_object">>, "return")

\* _main() line 50
CliReturn ==
    /\ cpc = "return"
    /\ cpc' = "returned"
    /\ exit_code' = 0
    /\ UNCHANGED <<dvars, wvars, cargs, calls>>

CNext ==
    \/ CliSetup
    \/ CliCheck
    \/ CliSetupProxy
    \/ CliLogin
    \/ CliDownload
    \/ CliLogout
    \/ CliCheckUpdate
    \/ CliClose
    \/ CliReturn

\* ---------------------------------------------------------- specifications
\* download() alone: no worker exists
NoDownload ==
    /\ args = [start_chapter |-> NoneV, end_chapter |-> NoneV,
               cover |-> "original", language |-> "Language.English",
               url |-> "valid", replace |-> FALSE, no_oneshot_chapter |-> FALSE]
    /\ run = 1 /\ pc = "idle" /\ err = "" /\ netCalls = {} /\ fs = {}
    /\ fsAtCall = {} /\ transfers = {} /\ upstream = "recovers" /\ NoChapter

Init == DInit /\ WInit /\ NoCli
Next == DNext
Spec == Init /\ [][Next]_vars

WorkerInit == WInit /\ NoDownload /\ NoCli
WorkerNext == WNext
WorkerSpec == WorkerInit /\ [][WorkerNext]_vars

CliInit == CInit /\ NoDownload /\ WInit
CliNext == CNext
CliSpec == CliInit /\ [][CliNext]_vars

\* The folder naming of download() alone, over every pair of labels.
\* "int:0" is the integer 0; every other label is a string.
VolLabels == {"int:0", "none", "0"} \cup {ToString(n) : n \in 1..MaxLabel}
ChapLabels == {"none", "0"} \cup {ToString(n) : n \in 1..MaxLabel}

FolderInit ==
    /\ args = [start_chapter |-> NoneV, end_chapter |-> NoneV,
               cover |-> "original", language |-> "Language.English",
               url |-> "valid", replace |-> FALSE, no_oneshot_chapter |-> FALSE]
    /\ run = 1 /\ pc = "folder" /\ err = "" /\ netCalls = {} /\ fs = {}
    /\ fsAtCall = {} /\ transfers = {} /\ upstream = "recovers"
    /\ vol \in VolLabels /\ chap \in ChapLabels
    /\ iterPos = 1 /\ chapter_folder = ""
    /\ images = <<>> /\ fetchCalls = 0 /\ fails = 0 /\ pageIdx = 0
    /\ error = FALSE /\ passLog = <<>> /\ okNames = {} /\ again = {}
    /\ started = <<>> /\ leftDirty = FALSE
    /\ WInit /\ NoCli

\* download() lines 231-243 for the pair (vol, chap) the iterator yielded
ComputeFolder ==
    /\ pc = "folder"
    /\ chapter_folder' = ChapterFolder(vol, chap)
    /\ pc' = "folder_done"
    /\ UNCHANGED <<wvars, cvars, upstream, args, run, err, netCalls, fs, fsAtCall,
                   transfers, iterPos, vol, chap, images, fetchCalls, fails,
                   pageIdx, error, passLog, okNames, again, started, leftDirty>>

FolderNext == ComputeFolder
FolderSpec == FolderInit /\ [][FolderNext]_vars

\* download() called with arguments that pass validation and fetch()
RetryArgs ==
    {a \in ArgSet : ValidateArgs(a) = "" /\ ParseLanguageAndUrl(a) = ""
                     /\ a.cover = "original" /\ a.language = "en"}

RetryInit == Init /\ args \in RetryArgs

\* download() runs on one thread that is never starved: every step of it that
\* can be taken is taken. A second call is up to the caller.
DownloadFairness ==
    /\ WF_vars(Validate)
    /\ WF_vars(FetchManga)
    /\ WF_vars(FetchChapters)
    /\ WF_vars(MakeBaseFolder)
    /\ WF_vars(DownloadCover)
    /\ WF_vars(NextChapter)
    /\ WF_vars(PageAttempt)
    /\ WF_vars(PassEnd)
    /\ WF_vars(Finish)

RetryFairSpec == RetryInit /\ [][Next]_vars /\ DownloadFairness

\* The worker and watchdog threads are scheduled fairly, a job's call ends,
\* and a submitter whose event is set is woken.
WorkerFairness ==
    /\ WF_vars(Start)
    /\ WF_vars(WorkerGet)
    /\ WF_vars(JobEnd)
    /\ WF_vars(WorkerSetEvent)
    /\ WF_vars(WatchdogCheck)
    /\ WF_vars(WatchdogSleep)
    /\ WF_vars(WatchdogAlive)
    /\ WF_vars(WatchdogPut)
    /\ \A j \in Jobs : WF_vars(SubmitReturn(j))

WorkerFairSpec == WorkerSpec /\ WorkerFairness

\* ------------------------------------------------------------------ claims
CoverPath == <<Title, "cover.jpg">>

\* C1: a chapter is left (the iterator advances, or download() finishes) only
\* after a pass that attempted every page of the image set with every
\* download() returning success.
C1_LeftOnlyAfterCleanPass ==
    [][(/\ run' = run
        /\ iterPos > 0
        /\ iterPos' # iterPos \/ (pc # "done" /\ pc' = "done"))
       => CleanPass]_vars

C1_Witness ==
    /\ pc = "chapters"
    /\ iterPos > 0
    /\ fails = MaxFail
    /\ CleanPass

\* C2 (as stated): N failed page downloads of a chapter mean N+1 fetch()
\* calls, and no page that already succeeded is transferred again.
C2_Original ==
    (iterPos > 0 /\ pc \in {"pages", "chapters", "done"})
    => /\ fetchCalls = fails + 1
       /\ again = {}

\* C2 (amended): N failed page downloads of a chapter mean N+1 fetch() calls,
\* and with replace=False no page that already succeeded is transferred again.
C2_FetchCountAndNoRetransfer ==
    (iterPos > 0 /\ pc \in {"pages", "chapters", "done"})
    => /\ fetchCalls = fails + 1
       /\ ~args.replace => again = {}

C2_Witness ==
    /\ run = 1
    /\ pc = "chapters"
    /\ ~args.replace
    /\ fails = MaxFail
    /\ fetchCalls = MaxFail + 1
    /\ CleanPass
    /\ \E i \in 1..Len(passLog) : ~passLog[i].transfer

\* C3: within a pass pages are attempted in increasing page-number order from
\* the first page; chapters are entered in the order the iterator yields them;
\* no page of a chapter is attempted while an earlier chapter was left without
\* an error-free pass.
C3_Ordered ==
    /\ \A i \in 1..Len(passLog) : passLog[i].page = i
    /\ Len(started) <= Len(IterChapters(args))
    /\ \A i \in 1..Len(started) : started[i] = IterChapters(args)[i]
    /\ (pc = "pages" /\ passLog # <<>>) => ~leftDirty

C3_Witness ==
    /\ pc = "pages"
    /\ Len(started) >= 2
    /\ fails >= 1
    /\ Len(passLog) = MaxPages

\* C4: at most one job executes at any time, and submit(job) has returned
\* only if that job's execution has ended.
C4_SingleJobAndSubmitWaits ==
    /\ Cardinality(executing) <= 1
    /\ \A j \in Jobs : spc[j] = "returned" => j \in finished

C4_Witness ==
    /\ \E j \in Jobs : spc[j] = "returned" /\ j \in raised
    /\ \E j \in Jobs : spc[j] = "wait" /\ j \in executing

\* C5: every call of submit() eventually returns, also when it is made after
\* shutdown() or after the worker loop has exited.
C5_SubmitReturns ==
    \A j \in Jobs : (spc[j] = "wait") ~> (spc[j] = "returned")

\* C6: a job that raises does not end the worker loop: its submitter's event
\* is set, the loop ends only on the sentinel, and by then every job enqueued
\* before the sentinel has been executed.
C6_RaisingJobKeepsLoop ==
    /\ \A j \in raised : event[j] \/ (data = j /\ wpc = "set")
    /\ wpc = "exited" => data = Sentinel
    /\ wpc = "exited" => beforeSentinel \subseteq finished

C6_Witness ==
    /\ wpc = "exited"
    /\ Len(execOrder) >= 2
    /\ execOrder[1] \in raised
    /\ event[execOrder[1]]
    /\ execOrder[2] \in finished \ raised
    /\ {execOrder[1], execOrder[2]} \subseteq beforeSentinel

ConfigErrors ==
    {"ValueError: start_chapter cannot be more than end_chapter",
     "ValueError: invalid cover type",
     "ValueError: invalid language",
     "ValueError: language must be Language or str"}

\* C7: when a configuration error is raised no upstream call has been made,
\* nothing has been transferred and no directory or file has been created.
C7_ConfigErrorBeforeNetwork ==
    (pc = "raised" /\ err \in ConfigErrors)
    => /\ netCalls = {}
       /\ transfers = {}
       /\ fs = fsAtCall

C7_Witness ==
    /\ pc = "raised"
    /\ err = "ValueError: invalid language"
    /\ args.start_chapter.t = "float"

\* C8: a call that omits start_chapter or end_chapter is not stopped by the
\* bounds check: it raises nothing there and goes on to fetch the manga.
C8_OmittedBoundProceeds ==
    (args.start_chapter.t = "none" \/ args.end_chapter.t = "none")
    => ~(/\ pc = "raised"
         /\ err \in {"TypeError: '>' not supported",
                     "ValueError: start_chapter cannot be more than end_chapter"})

HardUpstreamErrors == {"InvalidManga", "ChapterNotFound"}

\* C9: when fetch() fails with InvalidManga or ChapterNotFound the filesystem
\* is as it was when download() was called.
C9_HardErrorLeavesNoOutput ==
    (pc = "raised" /\ err \in HardUpstreamErrors) => fs = fsAtCall

C9_Witness ==
    /\ pc = "raised"
    /\ err = "ChapterNotFound"
    /\ "get_all_chapters" \in netCalls

\* C10 (as stated): a second run with replace=False transfers nothing, cover
\* included.
C10_Original ==
    (run = 2 /\ ~args.replace) => transfers = {}

\* C10 (amended): a second run with replace=False, after a first run that
\* completed, transfers no page: every page download returns success without
\* a transfer; only the cover is transferred again.
C10_SecondRunSkipsPages ==
    (run = 2 /\ ~args.replace)
    => /\ transfers \subseteq {CoverPath}
       /\ fails = 0
       /\ \A i \in 1..Len(passLog) : passLog[i].ok /\ ~passLog[i].transfer

C10_Witness ==
    /\ run = 2
    /\ ~args.replace
    /\ pc = "done"
    /\ CoverPath \in transfers
    /\ Len(passLog) = MaxPages

\* The calls _main() must not make when it rejects the bounds
CliAfterCheck ==
    {"setup_proxy", "login_with_err_handler", "download",
     "logout_with_err_handler", "check_update", "close_network_object"}

CliCalled == {calls[i] : i \in 1..Len(calls)}

\* C11: _main returns 1 when both bounds are given and start > end, and then
\* none of proxy setup, login, download, logout, update check or network close
\* has run; it returns 0 only after download, logout, update check and
\* network close have run, in that order.
C11_ExitCodes ==
    /\ CliBoundsRejected(cargs)
       => /\ CliCalled \cap CliAfterCheck = {}
          /\ cpc \in {"setup", "check", "returned", "raised"}
          /\ cpc = "returned" => exit_code = 1
    /\ exit_code = 1 => CliBoundsRejected(cargs) /\ cpc = "returned"
    /\ exit_code = 0
       => /\ cpc = "returned"
          /\ Len(calls) >= 4
          /\ SubSeq(calls, Len(calls) - 3, Len(calls))
               = <<"download", "logout_with_err_handler", "check_update",
                   "close_network_object">>

C11_Witness ==
    /\ cpc = "returned"
    /\ exit_code = 1
    /\ cargs.start_chapter = FloatV(MaxArg)
    /\ cargs.end_chapter = FloatV(1)

\* The three oneshot sentinel pairs
OneshotPairs == {<<"int:0", "none">>, <<"none", "none">>, <<"none", "0">>}

\* '%s' % vol: the text of a volume label
VolText(v) == IF v = "int:0" THEN "0" ELSE v

\* C12: the chapter folder is "Oneshot" for the three sentinel pairs; for every
\* other pair it is "Volume. {vol} Chapter. {chap}" when vol is not "none" and
\* "Chapter. {chap}" when it is.
C12_FolderName ==
    pc = "folder_done"
    => chapter_folder =
         (IF <<vol, chap>> \in OneshotPairs THEN "Oneshot"
          ELSE IF vol # "none"
            THEN "Volume. " \o VolText(vol) \o " Chapter. " \o chap
            ELSE "Chapter. " \o chap)

C12_Witness ==
    /\ pc = "folder_done"
    /\ vol = "none"
    /\ chap = "0"
    /\ chapter_folder = "Oneshot"

\* C13: a failed page download is the last attempt of its pass and is
\* followed by exactly one fetch(); every attempt of a pass is given the url
\* of the latest fetch made before the pass, so the attempt after a failure is
\* the first page of the refreshed sequence.
C13_RefreshThenRestart ==
    /\ \A i \in 1..(Len(passLog) - 1) : passLog[i].ok
    /\ \A i \in 1..Len(passLog) :
         passLog[i].server =
           (IF passLog[Len(passLog)].ok THEN fetchCalls ELSE fetchCalls - 1)
    /\ passLog # <<>> => passLog[1].page = 1
    /\ (pc = "pages" /\ error)
       => passLog # <<>> /\ ~passLog[Len(passLog)].ok

C13_Witness ==
    /\ pc = "pages"
    /\ fails >= 1
    /\ Len(passLog) = 1
    /\ passLog[1].page = 1
    /\ passLog[1].transfer
    /\ passLog[1].server = fails + 1
    /\ okNames # {}

\* C14: the retry loop has no attempt ceiling. It is left only after a pass
\* with no failed page; when page downloads stop failing the chapter is
\* eventually left; when every page transfer fails the loop is never left and
\* no later chapter is started.
C14_NoRetryCeiling ==
    /\ [][(pc = "pages" /\ pc' \notin {"pages", "raised"})
          => (pc' = "chapters" /\ CleanPass)]_vars
    /\ (upstream = "recovers" /\ pc = "pages") ~> (pc \in {"chapters", "raised"})
    /\ [](upstream = "broken"
          => /\ iterPos <= 1
             /\ pc # "done"
             /\ ~(pc = "chapters" /\ iterPos = 1))

C14_Witness ==
    /\ upstream = "broken"
    /\ pc = "pages"
    /\ fails = MaxFail
    /\ ~error
    /\ passLog = <<>>

\* The jobs _main() has started, and the items waiting in the queue
StartedJobs == {execOrder[i] : i \in 1..Len(execOrder)}
Queued == {queue[i] : i \in 1..Len(queue)}

\* C15: after shutdown() the watchdog eventually enqueues the sentinel and the
\* worker loop eventually exits, and when it exits every job enqueued before
\* the sentinel has been executed to its end.
C15_ShutdownDrains ==
    /\ shutdown_event ~> (dpc = "done")
    /\ shutdown_event ~> (wpc = "exited")
    /\ [](wpc = "exited"
          => /\ executing = {}
             /\ beforeSentinel \subseteq finished
             /\ \A j \in beforeSentinel : event[j])

C15_Witness ==
    /\ shutdown_event
    /\ mainAlive
    /\ wpc = "exited"
    /\ beforeSentinel = Jobs
    /\ finished = Jobs

\* C16: no job passed to submit() after shutdown() was called is ever started
\* by the worker loop.
C16_NoJobStartsAfterShutdown ==
    afterShutdown \cap StartedJobs = {}

\* C17: when the main thread has terminated, without shutdown() the watchdog
\* eventually enqueues the sentinel and the worker loop eventually exits, after
\* the running job and every job queued ahead of the sentinel have ended.
C17_MainThreadDeathDrains ==
    /\ (~mainAlive) ~> (dpc = "done")
    /\ (~mainAlive) ~> (wpc = "exited")
    /\ [](/\ (dpc = "done" /\ ~shutdown_event) => ~mainAlive
          /\ (wpc = "exited" /\ ~shutdown_event)
             => /\ executing = {}
                /\ beforeSentinel \subseteq finished)

C17_Witness ==
    /\ ~mainAlive
    /\ ~shutdown_event
    /\ wpc = "exited"
    /\ beforeSentinel = Jobs
    /\ finished = Jobs

\* C18: every job the loop dequeues is executed exactly once, jobs are executed
\* in the order they were enqueued, and a job's event is never set before its
\* execution has ended.
C18_FifoExactlyOnce ==
    /\ Len(execOrder) <= Len(enqOrder)
    /\ \A i \in 1..Len(execOrder) : execOrder[i] = enqOrder[i]
    /\ \A i, k \in 1..Len(execOrder) : i # k => execOrder[i] # execOrder[k]
    /\ StartedJobs = {enqOrder[i] : i \in 1..Len(enqOrder)} \ Queued
    /\ finished \cup executing = StartedJobs
    /\ finished \cap executing = {}
    /\ \A j \in Jobs : event[j] => j \in finished

C18_Witness ==
    /\ Len(execOrder) = MaxJobs
    /\ execOrder[1] = MaxJobs
    /\ \A j \in Jobs : event[j]

\* C19: the sentinel is enqueued at most once, and only after shutdown() was
\* called or the main thread was seen dead; while the main thread is alive and
\* shutdown() has not been called the sentinel is not in the queue and the
\* worker loop has not exited.
C19_SentinelOnceAndOnlyOnShutdown ==
    /\ sentinels <= 1
    /\ sentinels >= 1 => (shutdown_event \/ ~mainAlive)
    /\ (mainAlive /\ ~shutdown_event)
       => /\ Sentinel \notin Queued
          /\ wpc # "exited"
          /\ dpc # "done"

C19_Witness ==
    /\ sentinels = 1
    /\ shutdown_event
    /\ mainAlive
    /\ wpc = "exited"
    /\ finished # {}

====
